---- MODULE Spec2Model ----
(***************************************************************************)
(* Model of pipeline/recon/web/targets.py: the luigi task GatherWebTargets *)
(* (requires / output / run) together with the two upstream producers it   *)
(* requires and the files it reads and writes.                             *)
(*                                                                         *)
(* Strings that the code concatenates, strips or compares character-wise   *)
(* (host identifiers, ports, text lines, target entries) are sequences of  *)
(* one-character strings.  Host identifiers and ports contain no ":".      *)
(* Python sets are bags with set.add as "insert unless present", so that   *)
(* the absence of duplicates is a property of the model and not of the     *)
(* notation.  A file's content is the bag of its lines: the order in which *)
(* a Python set is iterated when it is written is unspecified.             *)
(***************************************************************************)
EXTENDS Bags, FiniteSets, Integers, Sequences, TLC

VARIABLES masscan_file, amass_files, web_ports, upstream, pc, todo, targets,
          shard, line, towrite, fs, error

vars == <<masscan_file, amass_files, web_ports, upstream, pc, todo, targets,
          shard, line, towrite, fs, error>>

(* ------------------------------ bounds -------------------------------- *)
MaxTriples == 2
MaxLines == 2

(* --------------------------- input universe --------------------------- *)
HostA == <<"a">>
HostB == <<"b">>
P80 == <<"8", "0">>
P443 == <<"4", "4", "3">>
NL == <<"\n">>

ScanUniverse ==
    ({HostA} \X {"tcp", "udp", "sctp"} \X {P80, P443})
        \cup ({HostB} \X {"tcp"} \X {P80, P443})

Policies == {{}, {P443}, {P80, P443}}

LineUniverse ==
    { <<"\n">>, <<" ", "\n">>, <<"a", "\n">>, <<" ", "s", "\n">> }

(* ------------------------- strings and lines -------------------------- *)
Whitespace == {" ", "\n", "\t", "\r"}

RECURSIVE LStrip(_)
LStrip(s) ==
    IF s = <<>> THEN s
    ELSE IF Head(s) \in Whitespace THEN LStrip(Tail(s)) ELSE s

RECURSIVE RStrip(_)
RStrip(s) ==
    IF s = <<>> THEN s
    ELSE IF s[Len(s)] \in Whitespace THEN RStrip(SubSeq(s, 1, Len(s) - 1))
         ELSE s

\* str.strip()
Strip(s) == RStrip(LStrip(s))

\* f"{target}:{port}"
Composite(target, port) == target \o <<":">> \o port

\* f"{target}\n"
Line(target) == target \o NL

(* ----------------------- the masscan artifact ------------------------- *)
\* A value of a protocol_dict: a set of ports, or (wrong shape) a str.
PortSet(ps) == [str |-> FALSE, ports |-> ps, chars |-> <<>>]
PortStr(cs) == [str |-> TRUE, ports |-> {}, chars |-> cs]

\* "for port in ports": the elements of a set, or the characters of a str.
PortsIter(v) ==
    IF v.str THEN {<<v.chars[i]>> : i \in DOMAIN v.chars} ELSE v.ports

\* The dictionary {host: {protocol: set(ports)}} holding the triples T.
DictOf(T) ==
    [h \in {t[1] : t \in T} |->
        [pr \in {t[2] : t \in {u \in T : u[1] = h}} |->
            PortSet({t[3] : t \in {u \in T : u[1] = h /\ u[2] = pr}})]]

\* The (target, protocol, port) triples the three nested loops visit.
Items(d) ==
    UNION { UNION { {<<h, pr, p>> : p \in PortsIter(d[h][pr])}
                    : pr \in DOMAIN d[h] }
            : h \in DOMAIN d }

WellFormedArtifacts ==
    { [state |-> "ok", type |-> "dict", d |-> DictOf(T)]
        : T \in {S \in SUBSET ScanUniverse : Cardinality(S) <= MaxTriples} }

CorruptArtifact == [state |-> "corrupt", type |-> "none", d |-> <<>>]
MissingArtifact == [state |-> "missing", type |-> "none", d |-> <<>>]
ListArtifact == [state |-> "ok", type |-> "list", d |-> <<>>]
PortStrArtifact ==
    [state |-> "ok", type |-> "dict",
     d |-> [h \in {HostA} |-> [pr \in {"tcp"} |-> PortStr(P80)]]]

MalformedArtifacts ==
    {CorruptArtifact, MissingArtifact, ListArtifact, PortStrArtifact}

(* ------------------------ the amass artifacts ------------------------- *)
SeqsUpTo(S, n) == UNION {[1..k -> S] : k \in 0..n}

ShardOf(ls) == [exists |-> TRUE, lines |-> ls]
MissingShard == [exists |-> FALSE, lines |-> <<>>]

Cuts(ls) == {k \in 0..Len(ls) : k >= Len(ls) - 1}

AmassInputs ==
    { <<ShardOf(SubSeq(c[1], 1, c[2])),
        ShardOf(SubSeq(c[1], c[2] + 1, Len(c[1])))>>
        : c \in { x \in SeqsUpTo(LineUniverse, MaxLines) \X (0..MaxLines)
                    : x[2] \in Cuts(x[1]) } }
        \cup { <<MissingShard>> }

AllLines(shards) ==
    UNION { {shards[i].lines[j] : j \in DOMAIN shards[i].lines}
            : i \in DOMAIN shards }

(* ------------------------------ the task ------------------------------ *)
\* requires() declaring the scan producer only
requiresMasscanOnly == {"masscan-output"}

\* requires(): the keys of the returned dict.
requires == {"masscan-output", "amass-output"}

\* output(): the canonical path of the artifact.
output == "target-results/webtargets.txt"

\* open(self.output().path, "w"): writing the target in place
OutputDirectPath == "target-results/webtargets.txt"

\* self.output().open("w"): luigi's LocalTarget writes through a temporary
\* file next to the target and renames it onto the target when it is closed.
OutputWritePath == "target-results/webtargets.txt-luigi-tmp"

Paths == {output, OutputWritePath}

Absent == [exists |-> FALSE, lines |-> EmptyBag]
EmptyFile == [exists |-> TRUE, lines |-> EmptyBag]

\* targets.append(t) on a list
AddTargetAppend(S, t) == S (+) SetToBag({t})

\* targets.add(t)
AddTarget(S, t) == IF BagIn(t, S) THEN S ELSE S (+) SetToBag({t})

\* the loop body without the udp check
LoopBodyNoUdpSkip(S, target, protocol, port) ==
    IF port = P80 THEN AddTarget(S, target)
    ELSE IF port \in web_ports THEN AddTarget(S, Composite(target, port))
    ELSE S

\* the loop body testing the policy before port 80
LoopBodyPolicyFirst(S, target, protocol, port) ==
    IF protocol = "udp" THEN S
    ELSE IF port \in web_ports THEN AddTarget(S, Composite(target, port))
    ELSE IF port = P80 THEN AddTarget(S, target)
    ELSE S

\* the loop body dropping host:port once the bare host is a target
LoopBodySuppress(S, target, protocol, port) ==
    IF protocol = "udp" THEN S
    ELSE IF port = P80 THEN AddTarget(S, target)
    ELSE IF port \in web_ports /\ ~BagIn(target, S)
         THEN AddTarget(S, Composite(target, port))
    ELSE S

\* The body of the innermost loop (lines 89-94).
LoopBody(S, target, protocol, port) ==
    IF protocol = "udp" THEN S
    ELSE IF port = P80 THEN AddTarget(S, target)
    ELSE IF port \in web_ports THEN AddTarget(S, Composite(target, port))
    ELSE S

\* a line is skipped when a host:port entry of that host is already there
AddLineUnlessHostKnown(S, l) ==
    IF \E e \in BagToSet(S) :
            /\ Len(e) > Len(Strip(l))
            /\ SubSeq(e, 1, Len(Strip(l)) + 1) = Strip(l) \o <<":">>
    THEN S
    ELSE AddTarget(S, Strip(l))

\* targets.add(target.strip())
AddLine(S, l) == AddTarget(S, Strip(l))

Running == {"mkdir", "load", "scan", "amass", "open", "write"}

Init ==
    /\ masscan_file \in WellFormedArtifacts \cup MalformedArtifacts
    /\ amass_files \in AmassInputs
    /\ web_ports \in Policies
    /\ upstream = [r \in {"masscan-output", "amass-output"} |-> FALSE]
    /\ pc = "pending"
    /\ todo = {}
    /\ targets = EmptyBag
    /\ shard = 0
    /\ line = 0
    /\ towrite = EmptyBag
    /\ fs = [p \in Paths |-> Absent]
    /\ error = "none"

inputs == <<masscan_file, amass_files, web_ports>>
locals == <<todo, targets, shard, line, towrite>>

\* An exception leaves run(): the locals are gone, the task is FAILED.
Raise(e) ==
    /\ pc' = "failed"
    /\ error' = e
    /\ todo' = {}
    /\ targets' = EmptyBag
    /\ shard' = 0
    /\ line' = 0
    /\ towrite' = EmptyBag

\* An upstream producer finishes and its output exists.
ProducerComplete(r) ==
    /\ ~upstream[r]
    /\ upstream' = [upstream EXCEPT ![r] = TRUE]
    /\ UNCHANGED <<inputs, pc, locals, fs, error>>

\* The scheduler runs a task whose output is absent once every task it
\* requires is complete.
Schedule ==
    /\ pc = "pending"
    /\ ~fs[output].exists
    /\ \A r \in requires : upstream[r]
    /\ pc' = "mkdir"
    /\ UNCHANGED <<inputs, upstream, locals, fs, error>>

\* line 71
Mkdir ==
    /\ pc = "mkdir"
    /\ pc' = "load"
    /\ UNCHANGED <<inputs, upstream, locals, fs, error>>

\* lines 75 and 86: pickle.load(open(...)) and ip_dict.items()
Load ==
    /\ pc = "load"
    /\ masscan_file.state = "ok"
    /\ masscan_file.type = "dict"
    /\ pc' = "scan"
    /\ todo' = Items(masscan_file.d)
    /\ UNCHANGED <<inputs, upstream, targets, shard, line, towrite, fs, error>>

LoadFail ==
    /\ pc = "load"
    /\ \/ masscan_file.state = "missing" /\ Raise("FileNotFoundError")
       \/ masscan_file.state = "corrupt" /\ Raise("UnpicklingError")
       \/ /\ masscan_file.state = "ok"
          /\ masscan_file.type # "dict"
          /\ Raise("AttributeError")
    /\ UNCHANGED <<inputs, upstream, fs>>

\* one iteration of the loops of lines 86-94; dict and set iteration order
\* is not specified
ScanStep ==
    /\ pc = "scan"
    /\ \E t \in todo :
        /\ targets' = LoopBody(targets, t[1], t[2], t[3])
        /\ todo' = todo \ {t}
    /\ UNCHANGED <<inputs, upstream, pc, shard, line, towrite, fs, error>>

ScanExit ==
    /\ pc = "scan"
    /\ todo = {}
    /\ pc' = "amass"
    /\ shard' = 1
    /\ line' = 0
    /\ UNCHANGED <<inputs, upstream, todo, targets, towrite, fs, error>>

\* line 98-100: the next line of the open shard
AmassLine ==
    /\ pc = "amass"
    /\ shard <= Len(amass_files)
    /\ amass_files[shard].exists
    /\ line < Len(amass_files[shard].lines)
    /\ targets' = AddLine(targets, amass_files[shard].lines[line + 1])
    /\ line' = line + 1
    /\ UNCHANGED <<inputs, upstream, pc, todo, shard, towrite, fs, error>>

\* end of a shard: the with block closes it and the loop of line 96 advances
AmassShardEnd ==
    /\ pc = "amass"
    /\ shard <= Len(amass_files)
    /\ amass_files[shard].exists
    /\ line = Len(amass_files[shard].lines)
    /\ shard' = shard + 1
    /\ line' = 0
    /\ UNCHANGED <<inputs, upstream, pc, todo, targets, towrite, fs, error>>

\* line 97: amass_result.open() of a file that is not there
AmassFail ==
    /\ pc = "amass"
    /\ shard <= Len(amass_files)
    /\ ~amass_files[shard].exists
    /\ Raise("FileNotFoundError")
    /\ UNCHANGED <<inputs, upstream, fs>>

AmassExit ==
    /\ pc = "amass"
    /\ shard > Len(amass_files)
    /\ pc' = "open"
    /\ UNCHANGED <<inputs, upstream, locals, fs, error>>

\* line 102: self.output().open("w")
OpenOutput ==
    /\ pc = "open"
    /\ fs' = [fs EXCEPT ![OutputWritePath] = EmptyFile]
    /\ towrite' = targets
    /\ pc' = "write"
    /\ UNCHANGED <<inputs, upstream, todo, targets, shard, line, error>>

\* lines 103-104: one iteration of "for target in targets"
WriteLine ==
    /\ pc = "write"
    /\ \E t \in BagToSet(towrite) :
        /\ fs' = [fs EXCEPT ![OutputWritePath].lines = @ (+) SetToBag({Line(t)})]
        /\ towrite' = towrite (-) SetToBag({t})
    /\ UNCHANGED <<inputs, upstream, pc, todo, targets, shard, line, error>>

\* leaving the with block of line 102: close, which renames the temporary
\* file onto the target
CloseOutput ==
    /\ pc = "write"
    /\ towrite = EmptyBag
    /\ fs' = [p \in Paths |->
                IF p = output THEN fs[OutputWritePath] ELSE Absent]
    /\ pc' = "done"
    /\ UNCHANGED <<inputs, upstream, todo, targets, shard, line, towrite, error>>

\* mkdir, open or write raises OSError; the file object being written is
\* dropped without being closed
OutputFail ==
    /\ pc \in {"mkdir", "open", "write"}
    /\ fs' = [fs EXCEPT ![OutputWritePath] = Absent]
    /\ Raise("OSError")
    /\ UNCHANGED <<inputs, upstream>>

\* the process running the task is stopped
Cancel ==
    /\ pc \in Running
    /\ pc' = "cancelled"
    /\ todo' = {}
    /\ targets' = EmptyBag
    /\ shard' = 0
    /\ line' = 0
    /\ towrite' = EmptyBag
    /\ UNCHANGED <<inputs, upstream, fs, error>>

Next ==
    \/ \E r \in {"masscan-output", "amass-output"} : ProducerComplete(r)
    \/ Schedule
    \/ Mkdir
    \/ Load
    \/ LoadFail
    \/ ScanStep
    \/ ScanExit
    \/ AmassLine
    \/ AmassShardEnd
    \/ AmassFail
    \/ AmassExit
    \/ OpenOutput
    \/ WriteLine
    \/ CloseOutput
    \/ OutputFail
    \/ Cancel

Spec == Init /\ [][Next]_vars

(* ----------------- run() as a function of its inputs ------------------ *)
\* The triples of the masscan artifact when it loads as a dictionary.
ScanTriples ==
    IF masscan_file.state = "ok" /\ masscan_file.type = "dict"
    THEN Items(masscan_file.d) ELSE {}

\* Every line of every shard, in the order run() reads them.
RECURSIVE LinesFrom(_, _)
LinesFrom(shards, i) ==
    IF i > Len(shards) THEN <<>>
    ELSE shards[i].lines \o LinesFrom(shards, i + 1)

\* lines 86-94 over a set of triples
RECURSIVE ScanFold(_, _)
ScanFold(S, T) ==
    IF T = {} THEN S
    ELSE LET t == CHOOSE x \in T : TRUE
         IN ScanFold(LoopBody(S, t[1], t[2], t[3]), T \ {t})

\* lines 96-100 over a sequence of lines
RECURSIVE LinesFold(_, _)
LinesFold(S, ls) ==
    IF ls = <<>> THEN S ELSE LinesFold(AddLine(S, Head(ls)), Tail(ls))

\* lines 73-100: the scan triples, then the subdomain lines
Merge(T, ls) == LinesFold(ScanFold(EmptyBag, T), ls)

\* lines 102-104: the lines written for a collection of targets
LinesBag(S) ==
    [l \in {Line(t) : t \in BagToSet(S)} |-> S[SubSeq(l, 1, Len(l) - 1)]]

(* ------------------------------ claims -------------------------------- *)
Reverse(s) == [i \in 1..Len(s) |-> s[Len(s) + 1 - i]]

\* the same merge with the two sources swapped, the lines read backwards
SwappedMerge(T, ls) == ScanFold(LinesFold(EmptyBag, Reverse(ls)), T)

Done == pc = "done"
Written == BagToSet(fs[output].lines)
OutputEntries == {SubSeq(l, 1, Len(l) - 1) : l \in Written}
StrippedLines == {Strip(l) : l \in AllLines(amass_files)}
NonBlank(ls) == SelectSeq(ls, LAMBDA l : Strip(l) # <<>>)

\* the scan loop has ended and no subdomain line has been read
ScanDone == pc = "amass" /\ shard = 1 /\ line = 0

\* C1: after run completes every entry of the output is (a) a host with
\* tcp port 80 open, (b) host:P for a host with tcp port P open and P in
\* the web-port policy, or (c) a line of the subdomain input; a port open
\* only under a protocol other than tcp contributes nothing.
C1_TcpTraceable ==
    Done =>
        \A e \in OutputEntries :
            \/ \E t \in ScanTriples : t[2] = "tcp" /\ t[3] = P80 /\ e = t[1]
            \/ \E t \in ScanTriples :
                /\ t[2] = "tcp"
                /\ t[3] \in web_ports
                /\ e = Composite(t[1], t[3])
            \/ e \in StrippedLines

\* C2: an empty or whitespace-only subdomain line contributes nothing: the
\* output has no blank line and equals the output for the same input with
\* those lines removed.
C2_BlankLinesDropped ==
    Done =>
        /\ NL \notin Written
        /\ fs[output].lines
             = LinesBag(Merge(ScanTriples, NonBlank(LinesFrom(amass_files, 1))))

\* C3: for a host H with tcp port P open, P other than 80, the scan-derived
\* part of the output contains H:P exactly when P is in the web-port policy,
\* whether or not H also has port 80 open.
C3_PolicyPortRule ==
    ScanDone =>
        \A t \in ScanTriples :
            (t[2] = "tcp" /\ t[3] # P80) =>
                (BagIn(Composite(t[1], t[3]), targets) <=> t[3] \in web_ports)

C3_Witness ==
    /\ ScanDone
    /\ {<<HostA, "tcp", P80>>, <<HostA, "tcp", P443>>} \subseteq ScanTriples
    /\ P443 \in web_ports
    /\ BagIn(HostA, targets)
    /\ BagIn(Composite(HostA, P443), targets)

\* C4: a port open only under udp contributes no entry, whatever the port:
\* every target comes from a non-udp triple or from a subdomain line, and a
\* scan map with only udp ports and no subdomain line gives an empty output.
C4_UdpExcluded ==
    /\ \A e \in BagToSet(targets) :
        \/ \E t \in ScanTriples :
            t[2] # "udp" /\ e \in {t[1], Composite(t[1], t[3])}
        \/ e \in StrippedLines
    /\ (Done /\ (\A t \in ScanTriples : t[2] = "udp")
             /\ AllLines(amass_files) = {})
            => fs[output] = EmptyFile

C4_Witness ==
    /\ Done
    /\ ScanTriples = {<<HostA, "udp", P80>>, <<HostA, "udp", P443>>}
    /\ P443 \in web_ports
    /\ AllLines(amass_files) = {}
    /\ fs[output] = EmptyFile

\* C5: a host H with tcp port 80 open gives the bare entry H in the output,
\* and the scan-derived part never contains H:80, also when 80 is in the
\* web-port policy.
C5_Port80Rule ==
    \A t \in ScanTriples :
        (t[2] = "tcp" /\ t[3] = P80) =>
            /\ ScanDone =>
                /\ BagIn(t[1], targets)
                /\ ~BagIn(Composite(t[1], P80), targets)
            /\ Done => Line(t[1]) \in Written

C5_Witness ==
    /\ Done
    /\ <<HostB, "tcp", P80>> \in ScanTriples
    /\ P80 \in web_ports
    /\ Line(HostB) \in Written

\* C6: the output has no duplicate lines: a host/port pair or hostname line
\* that occurs several times (directly, across shards, or from both sources)
\* has exactly one line in the output.
C6_NoDuplicates ==
    Done =>
        /\ \A l \in Written : CopiesIn(l, fs[output].lines) = 1
        /\ \A t \in ScanTriples :
            (t[2] # "udp" /\ (t[3] = P80 \/ t[3] \in web_ports)) =>
                CopiesIn(Line(IF t[3] = P80 THEN t[1]
                              ELSE Composite(t[1], t[3])),
                         fs[output].lines) = 1
        /\ \A l \in AllLines(amass_files) :
            CopiesIn(Line(Strip(l)), fs[output].lines) = 1

C6_Witness ==
    /\ Done
    /\ {<<HostA, "tcp", P80>>, <<HostA, "sctp", P80>>} \subseteq ScanTriples
    /\ Len(amass_files) = 2
    /\ amass_files[1].lines = << <<"a", "\n">> >>
    /\ amass_files[2].lines = << <<"a", "\n">> >>
    /\ CopiesIn(Line(HostA), fs[output].lines) = 1

\* C7: at every point of every execution, failed and cancelled runs
\* included, webtargets.txt is absent or holds the complete entry set of a
\* finished run; a failed or cancelled run leaves no webtargets.txt.
C7_AtomicOutput ==
    /\ fs[output].exists =>
        /\ Done
        /\ fs[output].lines
             = LinesBag(Merge(ScanTriples, LinesFrom(amass_files, 1)))
    /\ pc \in {"failed", "cancelled"} => ~fs[output].exists

C7_Witness ==
    /\ pc = "write"
    /\ towrite # EmptyBag
    /\ fs[OutputWritePath].exists
    /\ fs[OutputWritePath].lines # EmptyBag
    /\ ~fs[output].exists

\* C8: the two producers complete in either order, and run does not begin
\* before both have completed.
C8_JoinBarrier ==
    pc # "pending" => (upstream["masscan-output"] /\ upstream["amass-output"])

C8_Witness ==
    /\ pc = "load"
    /\ upstream["masscan-output"]
    /\ upstream["amass-output"]

\* C9: when an input artifact is malformed (unreadable, corrupt, or not of
\* the shape host -> protocol -> set of ports) the run ends as a failed
\* task with an input error and no output artifact.  The exceptions run()
\* lets escape for an input stand for InputFormatError.
C9_MalformedInputFails ==
    (masscan_file \in MalformedArtifacts \/ amass_files = <<MissingShard>>)
        => /\ pc # "done"
           /\ ~fs[output].exists
           /\ pc = "failed" =>
                error \in {"UnpicklingError", "FileNotFoundError",
                           "AttributeError", "OSError"}

\* C10: the merge is commutative over its two sources and independent of
\* iteration order: reading the subdomain lines first gives the same
\* targets and the same output as reading the scan triples first.
C10_Commutative ==
    pc \in {"open", "write", "done"} =>
        /\ targets = SwappedMerge(ScanTriples, LinesFrom(amass_files, 1))
        /\ Done =>
            fs[output].lines
                = LinesBag(SwappedMerge(ScanTriples, LinesFrom(amass_files, 1)))

C10_Witness ==
    /\ Done
    /\ <<HostA, "tcp", P443>> \in ScanTriples
    /\ P443 \in web_ports
    /\ Len(amass_files) = 2
    /\ amass_files[1].lines = << <<"a", "\n">> >>
    /\ amass_files[2].lines = << <<" ", "s", "\n">> >>
    /\ OutputEntries = {HostA, Composite(HostA, P443), <<"s">>}

====
